---- MODULE Spec2Model ----
(***************************************************************************)
(* Model of the approval gate of mcp_approval (src/approvals.py):          *)
(* ToolLevelApproval / CallLevelApproval.check_and_approve_tool, the       *)
(* confirmation flow call_approval_handler_with_timeout and the bounded    *)
(* invoker call_with_timeout (asyncio.timeout around the approval          *)
(* handler).                                                               *)
(*                                                                         *)
(* Strings are sequences of one-character strings.  A Python value is a    *)
(* record [type, val]: type "str" carries a string, "int" a number,        *)
(* "none" is None and "bad" is an object whose __str__ raises.             *)
(***************************************************************************)
EXTENDS Integers, Sequences, FiniteSets, TLC

VARIABLES
    config,          \* the approval object's configuration (fixed at construction)
    pc,              \* position of the current check_and_approve_tool call
    tool_request,    \* the ToolRequest of the current call
    elapsed,         \* seconds since asyncio.timeout was entered
    handler_calls,   \* invocations of the approval handler in the current call
    handler_result,  \* how the handler invocation ended
    timed_out,       \* the deadline of asyncio.timeout has fired
    approved,        \* value returned by check_and_approve_tool (when pc = "returned")
    lines_read,      \* what input() delivered to the CLI handler invocation so far
    zombie_readers,  \* executor threads still blocked in input() for an ended invocation
    parked,          \* frame of the other check_and_approve_tool call on the same object
    handler_param,   \* approval_ui_handler argument of the constructor ("none" when omitted)
    approval_ui_handler,  \* self.approval_ui_handler, the handler the object invokes
    client,          \* the orchestrator that drives the approval object
    server           \* the mock MCP server: its last request and answer, its request log

\* what __init__ fixes for the life of the approval object
object == <<config, handler_param, approval_ui_handler>>

\* the programs around the approval object
glue == <<client, server>>

vars == <<config, pc, tool_request, elapsed, handler_calls, handler_result,
          timed_out, approved, lines_read, zombie_readers, parked,
          handler_param, approval_ui_handler, client, server>>

----------------------------------------------------------------------------
(* Bounds *)

MaxLen == 2          \* longest tool name
MaxTimeout == 1      \* largest approval_timeout
MaxLines == 2        \* most deliveries of input() to one handler invocation
MaxZombies == 2      \* most abandoned readers blocked in input() at a time
MaxCalls == 2        \* most tool calls in one list, action requests in one interrupt
MaxResumes == 2      \* most resumptions of the agent in one invoke_with_approval
MaxRounds == 3       \* largest max_rounds given to iterate_with_tools
MaxChunks == 2       \* most chunks in one response of the LLM

----------------------------------------------------------------------------
(* Strings *)

Chars == {"a", "A", "*"}

StrSet(n) == UNION {[1..k -> Chars] : k \in 0..n}

\* the lower-case letter of every upper-case letter
LowerCase ==
    ("A" :> "a") @@ ("B" :> "b") @@ ("C" :> "c") @@ ("D" :> "d")
    @@ ("E" :> "e") @@ ("F" :> "f") @@ ("G" :> "g") @@ ("H" :> "h")
    @@ ("I" :> "i") @@ ("J" :> "j") @@ ("K" :> "k") @@ ("L" :> "l")
    @@ ("M" :> "m") @@ ("N" :> "n") @@ ("O" :> "o") @@ ("P" :> "p")
    @@ ("Q" :> "q") @@ ("R" :> "r") @@ ("S" :> "s") @@ ("T" :> "t")
    @@ ("U" :> "u") @@ ("V" :> "v") @@ ("W" :> "w") @@ ("X" :> "x")
    @@ ("Y" :> "y") @@ ("Z" :> "z")

\* str.lower() on one character
LowerChar(c) == IF c \in DOMAIN LowerCase THEN LowerCase[c] ELSE c

\* str.lower()
Lower(s) == [i \in 1..Len(s) |-> LowerChar(s[i])]

\* `word in text` taken as equality of the two strings
IsSubstring_whole(word, text) == word = text

\* Python's `word in text` on strings: substring containment
IsSubstring(word, text) ==
    \E i \in 0..(Len(text) - Len(word)) :
        SubSeq(text, i + 1, i + Len(word)) = word

\* decimal digits of a non-negative integer below 100
Digit(d) == CASE d = 0 -> "0" [] d = 1 -> "1" [] d = 2 -> "2" [] d = 3 -> "3"
              [] d = 4 -> "4" [] d = 5 -> "5" [] d = 6 -> "6" [] d = 7 -> "7"
              [] d = 8 -> "8" [] OTHER -> "9"

\* Python values
StrVal(s) == [type |-> "str", val |-> s]
IntVal(n) == [type |-> "int", val |-> n]
NoneVal == [type |-> "none", val |-> 0]
BadVal == [type |-> "bad", val |-> 0]

\* str(value); only called on values whose __str__ does not raise
Str(v) ==
    CASE v.type = "str" -> v.val
      [] v.type = "int" -> IF v.val < 10 THEN <<Digit(v.val)>>
                           ELSE <<Digit(v.val \div 10), Digit(v.val % 10)>>
      [] OTHER -> <<"N", "o", "n", "e">>

\* str(value) raises
StrRaises(v) == v.type = "bad"

\* value.lower() raises (AttributeError on a non-string)
LowerRaises(v) == v.type # "str"

----------------------------------------------------------------------------
(* Inputs *)

ArgNames == {"p", "q"}

\* values of argument p / argument q of a request
PValues == {StrVal(<<"A">>), StrVal(<<"*">>), IntVal(1), BadVal}
QValues == {StrVal(<<"a">>), BadVal}

ArgDicts ==
    UNION {[S -> PValues \cup QValues] : S \in SUBSET ArgNames}

Args == {a \in ArgDicts :
            /\ ("p" \in DOMAIN a => a["p"] \in PValues)
            /\ ("q" \in DOMAIN a => a["q"] \in QValues)}

Names == {StrVal(s) : s \in StrSet(MaxLen)} \cup {NoneVal}

Descriptions == {StrVal(<<>>), StrVal(<<"A", "*">>)}

ToolRequests == [name : Names, description : Descriptions, args : Args]

\* dangerous_verbs as stored in the configuration (no normalisation at build)
VerbLists == { <<>>,
               << <<"A">> >>,
               << <<"a", "a">>, <<"*", "a">> >> }

\* approval_rules: tool name -> ordered (arg_name, keywords) entries
Rule(arg, kws) == [arg |-> arg, keywords |-> kws]

\* approval_rules = {} (ToolLevelApprovalConfig has no approval_rules field)
NoRules == [t \in {} |-> <<>>]

RuleSets == { NoRules,
              [t \in {<<"a">>} |-> << Rule("p", << <<"*">> >>) >>],
              [t \in {<<"a">>} |->
                  << Rule("q", << <<"A">> >>),
                     Rule("p", << <<"1">>, <<"A">> >>) >>] }

Timeouts == 0..MaxTimeout

Configs == [kind : {"tool"},
            dangerous_verbs : VerbLists,
            approval_rules : {NoRules},
            approval_timeout : Timeouts,
            on_approval_timeout_auto_approve : BOOLEAN,
            approval_ui_handler : {"cli", "custom"}]
           \cup
           [kind : {"call"},
            dangerous_verbs : VerbLists,
            approval_rules : RuleSets,
            approval_timeout : Timeouts,
            on_approval_timeout_auto_approve : BOOLEAN,
            approval_ui_handler : {"cli", "custom"}]

----------------------------------------------------------------------------
(* Classification *)

\* [v.lower() for v in self.config.dangerous_verbs]
LowerAll(words) == [i \in 1..Len(words) |-> Lower(words[i])]

\* BaseApproval.contains_dangerous_words with the operands swapped
contains_dangerous_words_swapped(text, dangerous_words) ==
    \E i \in 1..Len(dangerous_words) : IsSubstring(text, dangerous_words[i])

\* BaseApproval.contains_dangerous_words: any(word in text for word in words)
contains_dangerous_words(text, dangerous_words) ==
    \E i \in 1..Len(dangerous_words) : IsSubstring(dangerous_words[i], text)

\* tool_request["name"].lower() or tool_request["description"].lower() raises
FieldsRaise(req) == LowerRaises(req.name) \/ LowerRaises(req.description)

\* is_dangerous / is_tool_dangerous; only evaluated when not FieldsRaise(req)
IsToolDangerous(cfg, req) ==
    LET tool_name == Lower(req.name.val)
        tool_desc == Lower(req.description.val)
        dangerous_verbs == LowerAll(cfg.dangerous_verbs)
    IN  \/ contains_dangerous_words(tool_name, dangerous_verbs)
        \/ contains_dangerous_words(tool_desc, dangerous_verbs)

\* one keyword of the list is a substring of the (already lower-cased) value
KeywordMatches(keywords, arg_value) ==
    \E k \in 1..Len(keywords) : IsSubstring(Lower(keywords[k]), arg_value)

\* the loop of _check_arguments_dangerous without lower-casing the value
RECURSIVE ScanRulesNoLower(_, _, _)
ScanRulesNoLower(tool_rules, args, i) ==
    IF i > Len(tool_rules) THEN "false"
    ELSE LET arg_name == tool_rules[i].arg
         IN  IF arg_name \notin DOMAIN args
             THEN ScanRulesNoLower(tool_rules, args, i + 1)
             ELSE IF StrRaises(args[arg_name]) THEN "raise"
             ELSE IF KeywordMatches(tool_rules[i].keywords, Str(args[arg_name]))
                  THEN "true"
                  ELSE ScanRulesNoLower(tool_rules, args, i + 1)

\* the loop of _check_arguments_dangerous over tool_rules.items(), from entry i:
\* "true" / "false", or "raise" when str() of an inspected value raises
RECURSIVE ScanRules(_, _, _)
ScanRules(tool_rules, args, i) ==
    IF i > Len(tool_rules) THEN "false"
    ELSE LET arg_name == tool_rules[i].arg
         IN  IF arg_name \notin DOMAIN args
             THEN ScanRules(tool_rules, args, i + 1)
             ELSE IF StrRaises(args[arg_name]) THEN "raise"
             ELSE IF KeywordMatches(tool_rules[i].keywords,
                                    Lower(Str(args[arg_name])))
                  THEN "true"
                  ELSE ScanRules(tool_rules, args, i + 1)

\* the argument names whose values the loop of _check_arguments_dangerous
\* passes to str(), from entry i: the loop stops at the first match and at
\* the first str() that raises
RECURSIVE StringifiedFrom(_, _, _)
StringifiedFrom(tool_rules, args, i) ==
    IF i > Len(tool_rules) THEN {}
    ELSE LET arg_name == tool_rules[i].arg
         IN  IF arg_name \notin DOMAIN args
             THEN StringifiedFrom(tool_rules, args, i + 1)
             ELSE IF StrRaises(args[arg_name]) THEN {arg_name}
             ELSE IF KeywordMatches(tool_rules[i].keywords,
                                    Lower(Str(args[arg_name])))
                  THEN {arg_name}
                  ELSE {arg_name}
                           \cup StringifiedFrom(tool_rules, args, i + 1)

\* the argument names whose values one check_and_approve_tool passes to
\* str(): none at tool level; at call level _check_arguments_dangerous is
\* called whatever the verdict on name and description was
Stringified(cfg, req) ==
    IF cfg.kind = "tool" \/ FieldsRaise(req) THEN {}
    ELSE IF req.name.val \notin DOMAIN cfg.approval_rules THEN {}
    ELSE StringifiedFrom(cfg.approval_rules[req.name.val], req.args, 1)

\* _check_arguments_dangerous falling back to the rules of another tool
\* when the tool has no entry of its own
check_arguments_dangerous_fallback(cfg, req) ==
    LET rules == cfg.approval_rules
    IN  IF req.name.val \in DOMAIN rules
        THEN ScanRules(rules[req.name.val], req.args, 1)
        ELSE IF DOMAIN rules = {} THEN "false"
        ELSE ScanRules(rules[CHOOSE t \in DOMAIN rules : TRUE], req.args, 1)

\* CallLevelApproval._check_arguments_dangerous; the rules are looked up
\* under the name as given (not lower-cased)
check_arguments_dangerous(cfg, req) ==
    IF req.name.val \notin DOMAIN cfg.approval_rules
    THEN "false"
    ELSE ScanRules(cfg.approval_rules[req.name.val], req.args, 1)

\* CallLevelApproval with the rules of a tool replacing the verdict on its
\* name: a tool that has rules is asked about only when a rule matches
CallLevelClassify_narrowing(cfg, req) ==
    IF FieldsRaise(req) THEN "raise"
    ELSE LET is_tool_dangerous == IsToolDangerous(cfg, req)
             is_args_dangerous == check_arguments_dangerous(cfg, req)
         IN  IF is_args_dangerous = "raise" THEN "raise"
             ELSE IF req.name.val \in DOMAIN cfg.approval_rules
                  THEN (IF is_args_dangerous = "true" THEN "dangerous"
                        ELSE "safe")
                  ELSE IF is_tool_dangerous THEN "dangerous" ELSE "safe"

\* The synchronous part of check_and_approve_tool, up to the first await:
\* "raise" (an exception leaves the call), "safe" (return True) or
\* "dangerous" (the approval handler is awaited)
ToolLevelClassify(cfg, req) ==
    IF FieldsRaise(req) THEN "raise"
    ELSE IF ~IsToolDangerous(cfg, req) THEN "safe"
    ELSE "dangerous"

CallLevelClassify(cfg, req) ==
    IF FieldsRaise(req) THEN "raise"
    ELSE LET is_tool_dangerous == IsToolDangerous(cfg, req)
             is_args_dangerous == check_arguments_dangerous(cfg, req)
         IN  IF is_args_dangerous = "raise" THEN "raise"
             ELSE IF ~is_tool_dangerous /\ is_args_dangerous = "false"
                  THEN "safe"
                  ELSE "dangerous"

Classify(cfg, req) ==
    IF cfg.kind = "tool" THEN ToolLevelClassify(cfg, req)
    ELSE CallLevelClassify(cfg, req)

----------------------------------------------------------------------------
(* Confirmation flow *)

\* How the awaited handler invocation can end
Returns == {"ret_true", "ret_false", "ret_none"}
Raises == {"raise_error", "raise_timeout"}

\* call_with_timeout: the value it returns ("true" / "false" / "none"), or
\* "raise" when an exception leaves it.  event is how the await of
\* func(*args) ended: the handler returned or raised, the deadline of
\* asyncio.timeout fired ("deadline") or the calling task was cancelled
\* ("cancel").  The reference CLI handler catches CancelledError and returns
\* False; a handler that does not catch it lets it propagate, and
\* asyncio.timeout turns it into TimeoutError only when its deadline fired.
call_with_timeout(handler, event) ==
    CASE event = "ret_true" -> "true"
      [] event = "ret_false" -> "false"
      [] event = "ret_none" -> "none"
      [] event = "raise_timeout" -> "none"
      [] event = "raise_error" -> "raise"
      [] event = "deadline" -> IF handler = "cli" THEN "false" ELSE "none"
      [] OTHER -> IF handler = "cli" THEN "false" ELSE "raise"

\* asyncio.timeout(timeout_seconds): seconds after entry at which the deadline
\* fires; a deadline that is not in the future fires on the next loop turn
Deadline(timeout_seconds) == IF timeout_seconds < 0 THEN 0 ELSE timeout_seconds

\* call_approval_handler_with_timeout approving on every timeout
call_approval_handler_approving(result, auto_approve_on_timeout) ==
    IF result = "none" THEN "true" ELSE result

\* call_approval_handler_with_timeout with the flag inverted
call_approval_handler_inverted(result, auto_approve_on_timeout) ==
    IF result = "none"
    THEN (IF auto_approve_on_timeout THEN "false" ELSE "true")
    ELSE result

\* call_approval_handler_with_timeout testing `not result`
call_approval_handler_falsy(result, auto_approve_on_timeout) ==
    IF result \in {"none", "false"}
    THEN (IF auto_approve_on_timeout THEN "true" ELSE "false")
    ELSE result

\* BaseApproval.call_approval_handler_with_timeout, given the outcome of
\* call_with_timeout
call_approval_handler_with_timeout(result, auto_approve_on_timeout) ==
    IF result = "none"
    THEN (IF auto_approve_on_timeout THEN "true" ELSE "false")
    ELSE result

----------------------------------------------------------------------------
(* State machine *)

NoRequest == [name |-> NoneVal, description |-> StrVal(<<>>), args |-> <<>>]

\* the locals of a check_and_approve_tool call that has not started
IdleFrame ==
    [pc |-> "idle", tool_request |-> NoRequest, elapsed |-> 0,
     handler_calls |-> 0, handler_result |-> "pending", timed_out |-> FALSE,
     approved |-> FALSE]

\* BaseApproval.__init__ with the configured handler before the default
select_approval_ui_handler_config_first(param, configured) ==
    IF configured # "none" THEN configured
    ELSE IF param # "none" THEN param
    ELSE "cli"

\* BaseApproval.__init__: the handler the object keeps, of the constructor
\* argument and of config.approval_ui_handler ("none" stands for None,
\* "cli" for default_cli_approval_handler)
select_approval_ui_handler(param, configured) ==
    IF param # "none" THEN param
    ELSE IF configured # "none" THEN configured
    ELSE "cli"

\* no orchestrator, no server
NoClient == [kind |-> "none"]
NoServer == [kind |-> "none"]

\* no call in progress
InitCall ==
    /\ pc = "idle"
    /\ tool_request = NoRequest
    /\ elapsed = 0
    /\ handler_calls = 0
    /\ handler_result = "pending"
    /\ timed_out = FALSE
    /\ approved = FALSE
    /\ lines_read = <<>>
    /\ zombie_readers = 0
    /\ parked = IdleFrame

Init ==
    /\ config \in Configs
    /\ handler_param = "none"
    /\ approval_ui_handler =
           select_approval_ui_handler(handler_param, config.approval_ui_handler)
    /\ InitCall
    /\ client = NoClient
    /\ server = NoServer

\* check_and_approve_tool letting through, unasked, a request that the
\* handler approved in the other call
CheckAndApproveTool_remembering(req) ==
    /\ pc = "idle"
    /\ zombie_readers < MaxZombies
    /\ tool_request' = req
    /\ elapsed' = 0
    /\ handler_result' = "pending"
    /\ timed_out' = FALSE
    /\ LET c == IF parked.tool_request = req /\ parked.pc = "returned"
                    /\ parked.approved
                 THEN "safe"
                 ELSE Classify(config, req)
       IN  /\ pc' = CASE c = "raise" -> "raised"
                      [] c = "safe" -> "returned"
                      [] OTHER -> "waiting"
           /\ approved' = (c = "safe")
           /\ handler_calls' = IF c = "dangerous" THEN 1 ELSE 0
    /\ lines_read' = <<>>
    /\ UNCHANGED <<object, glue, zombie_readers, parked>>

\* check_and_approve_tool from its entry to its first await (or its return)
CheckAndApproveTool(req) ==
    /\ pc = "idle"
    /\ zombie_readers < MaxZombies
    /\ tool_request' = req
    /\ elapsed' = 0
    /\ handler_result' = "pending"
    /\ timed_out' = FALSE
    /\ LET c == Classify(config, req)
       IN  /\ pc' = CASE c = "raise" -> "raised"
                      [] c = "safe" -> "returned"
                      [] OTHER -> "waiting"
           /\ approved' = (c = "safe")
           /\ handler_calls' = IF c = "dangerous" THEN 1 ELSE 0
    /\ lines_read' = <<>>
    /\ UNCHANGED <<object, glue, zombie_readers, parked>>

\* the await in call_with_timeout ends with event: the rest of
\* call_with_timeout, call_approval_handler_with_timeout and
\* check_and_approve_tool run to the return (or the exception)
Resume(event) ==
    LET result == call_with_timeout(approval_ui_handler, event)
        verdict == call_approval_handler_with_timeout(
                       result, config.on_approval_timeout_auto_approve)
    IN  /\ handler_result' = event
        /\ pc' = IF verdict = "raise" THEN "raised" ELSE "returned"
        /\ approved' = (verdict = "true")
        /\ UNCHANGED <<object, glue, tool_request, elapsed, handler_calls, parked>>

\* one second passes while the handler is awaited
Tick ==
    /\ pc = "waiting"
    /\ elapsed < Deadline(config.approval_timeout)
    /\ elapsed' = elapsed + 1
    /\ UNCHANGED <<object, glue, pc, tool_request, handler_calls, handler_result,
                   timed_out, approved, lines_read, zombie_readers, parked>>

\* the handler returns a value (the CLI handler returns only booleans)
HandlerReturns(r) ==
    /\ pc = "waiting"
    /\ approval_ui_handler = "cli" => r # "ret_none"
    /\ timed_out' = FALSE
    /\ Resume(r)
    /\ UNCHANGED <<lines_read, zombie_readers>>

\* the handler raises (the CLI handler raises no TimeoutError of its own)
HandlerRaises(e) ==
    /\ pc = "waiting"
    /\ approval_ui_handler = "cli" => e # "raise_timeout"
    /\ timed_out' = FALSE
    /\ Resume(e)
    /\ UNCHANGED <<lines_read, zombie_readers>>

\* the deadline of asyncio.timeout fires and cancels the awaited handler
DeadlineExpires ==
    /\ pc = "waiting"
    /\ elapsed >= Deadline(config.approval_timeout)
    /\ timed_out' = TRUE
    /\ Resume("deadline")
    /\ UNCHANGED <<lines_read, zombie_readers>>

\* the task running check_and_approve_tool is cancelled by its owner
Cancel ==
    /\ pc = "waiting"
    /\ timed_out' = FALSE
    /\ Resume("cancel")
    /\ UNCHANGED <<lines_read, zombie_readers>>

\* the caller takes the outcome (the verdict or the exception); the approval
\* object keeps nothing of the call
Finish ==
    /\ pc \in {"returned", "raised"}
    /\ pc' = "idle"
    /\ tool_request' = NoRequest
    /\ elapsed' = 0
    /\ handler_calls' = 0
    /\ handler_result' = "pending"
    /\ timed_out' = FALSE
    /\ approved' = FALSE
    /\ lines_read' = <<>>
    /\ UNCHANGED <<object, glue, zombie_readers, parked>>

Next ==
    \/ \E req \in ToolRequests : CheckAndApproveTool(req)
    \/ Finish
    \/ Tick
    \/ \E r \in Returns : HandlerReturns(r)
    \/ \E e \in Raises : HandlerRaises(e)
    \/ DeadlineExpires
    \/ Cancel

Spec == Init /\ [][Next]_vars

\* the event loop runs the timer: time passes and the armed deadline fires
FairSpec == Spec /\ WF_vars(Tick) /\ WF_vars(DeadlineExpires)

----------------------------------------------------------------------------
(* The reference console handler, delivery by delivery *)

\* str.strip(): s without its leading and trailing blanks
Strip(s) ==
    LET kept == {i \in 1..Len(s) : s[i] # " "}
    IN  IF kept = {} THEN <<>>
        ELSE SubSeq(s, CHOOSE i \in kept : \A j \in kept : i <= j,
                       CHOOSE i \in kept : \A j \in kept : i >= j)

\* what the awaited input() delivers: a line, EOFError (Ctrl-D) or
\* KeyboardInterrupt (Ctrl-C)
Line(text) == [kind |-> "line", text |-> text]
EndOfInput == [kind |-> "eof", text |-> <<>>]
Interrupt == [kind |-> "interrupt", text |-> <<>>]

InputLines == {<<"y">>, <<" ", "Y">>, <<"n">>, <<"N", " ">>,
               <<>>, <<" ">>, <<"y", "n">>}

\* default_cli_approval_handler comparing the line as typed
default_cli_approval_handler_raw(delivery) ==
    IF delivery.kind # "line" THEN "ret_false"
    ELSE CASE delivery.text = <<"y">> -> "ret_true"
           [] delivery.text = <<"n">> -> "ret_false"
           [] OTHER -> "again"

\* default_cli_approval_handler letting EOFError and KeyboardInterrupt out
default_cli_approval_handler_uncaught(delivery) ==
    IF delivery.kind # "line" THEN "raise_error"
    ELSE LET choice == Strip(Lower(delivery.text))
         IN  CASE choice = <<"y">> -> "ret_true"
               [] choice = <<"n">> -> "ret_false"
               [] OTHER -> "again"

\* one turn of the loop of default_cli_approval_handler: how the handler
\* ends on this delivery, or "again" when it prompts once more
default_cli_approval_handler(delivery) ==
    IF delivery.kind # "line" THEN "ret_false"
    ELSE LET choice == Strip(Lower(delivery.text))
         IN  CASE choice = <<"y">> -> "ret_true"
               [] choice = <<"n">> -> "ret_false"
               [] OTHER -> "again"

\* requests the console handler can print (json.dumps(args) succeeds)
CliRequests ==
    {req \in ToolRequests :
        /\ req.name \in {StrVal(<<"a">>), StrVal(<<"*">>)}
        /\ req.description = StrVal(<<>>)
        /\ \A a \in DOMAIN req.args : req.args[a] = StrVal(<<"A">>)}

InitCli == Init /\ config.approval_ui_handler = "cli"

\* CliDelivers with every line putting the deadline off by a second
CliDelivers_postponing(delivery) ==
    /\ pc = "waiting"
    /\ Len(lines_read) < MaxLines
    /\ lines_read' = Append(lines_read, delivery)
    /\ LET r == default_cli_approval_handler(delivery)
       IN  IF r = "again"
           THEN /\ elapsed' = IF elapsed > 0 THEN elapsed - 1 ELSE 0
                /\ UNCHANGED <<object, glue, pc, tool_request, handler_calls,
                               handler_result, timed_out, approved, parked>>
           ELSE timed_out' = FALSE /\ Resume(r)

\* CliDelivers with the deadline armed anew at every prompt
CliDelivers_rearmed(delivery) ==
    /\ pc = "waiting"
    /\ Len(lines_read) < MaxLines
    /\ lines_read' = Append(lines_read, delivery)
    /\ LET r == default_cli_approval_handler(delivery)
       IN  IF r = "again"
           THEN /\ elapsed' = 0
                /\ UNCHANGED <<object, glue, pc, tool_request, handler_calls,
                               handler_result, timed_out, approved, parked>>
           ELSE timed_out' = FALSE /\ Resume(r)

\* the awaited input() of the running handler invocation ends
CliDelivers(delivery) ==
    /\ pc = "waiting"
    /\ Len(lines_read) < MaxLines
    /\ lines_read' = Append(lines_read, delivery)
    /\ LET r == default_cli_approval_handler(delivery)
       IN  IF r = "again"
           THEN UNCHANGED <<object, glue, pc, tool_request, elapsed, handler_calls,
                            handler_result, timed_out, approved, parked>>
           ELSE timed_out' = FALSE /\ Resume(r)

\* the user enters a line and the running invocation's reader gets it; the
\* next prompt, if any, keeps the deadline armed at entry.  The readers
\* block on the one standard input in the order they were started, so the
\* running invocation's reader gets a line only when no abandoned reader is
\* left before it
CliReadLine(text) ==
    /\ zombie_readers = 0
    /\ CliDelivers(Line(text))
    /\ UNCHANGED zombie_readers

\* Ctrl-D: input() raises EOFError in the reader thread, which ends
CliEndOfInput ==
    /\ CliDelivers(EndOfInput)
    /\ UNCHANGED zombie_readers

\* Ctrl-C: the handler is interrupted while its reader stays blocked
CliInterrupt ==
    /\ CliDelivers(Interrupt)
    /\ zombie_readers' = zombie_readers + 1

\* the deadline fires: the handler is cancelled, its reader stays blocked
CliDeadlineExpires ==
    /\ pc = "waiting"
    /\ elapsed >= Deadline(config.approval_timeout)
    /\ timed_out' = TRUE
    /\ Resume("deadline")
    /\ zombie_readers' = zombie_readers + 1
    /\ UNCHANGED lines_read

\* the owner cancels the task: the handler is cancelled, its reader stays
\* blocked
CliCancel ==
    /\ pc = "waiting"
    /\ timed_out' = FALSE
    /\ Resume("cancel")
    /\ zombie_readers' = zombie_readers + 1
    /\ UNCHANGED lines_read

\* ZombieReadLine with the abandoned reader's line taken as the answer
ZombieReadLine_stale(text) ==
    /\ zombie_readers > 0
    /\ zombie_readers' = zombie_readers - 1
    /\ approved' = IF pc = "returned"
                   THEN default_cli_approval_handler(Line(text)) = "ret_true"
                   ELSE approved
    /\ UNCHANGED <<object, glue, pc, tool_request, elapsed, handler_calls,
                   handler_result, timed_out, lines_read, parked>>

\* a line reaches an abandoned reader whose result nobody awaits
ZombieReadLine(text) ==
    /\ zombie_readers > 0
    /\ zombie_readers' = zombie_readers - 1
    /\ UNCHANGED <<object, glue, pc, tool_request, elapsed, handler_calls,
                   handler_result, timed_out, approved, lines_read, parked>>

NextCli ==
    \/ \E req \in CliRequests : CheckAndApproveTool(req)
    \/ Finish
    \/ Tick
    \/ \E text \in InputLines : CliReadLine(text)
    \/ CliEndOfInput
    \/ CliInterrupt
    \/ CliDeadlineExpires
    \/ CliCancel
    \/ \E text \in InputLines : ZombieReadLine(text)

\* the approval object with the reference console handler
SpecCli == InitCli /\ [][NextCli]_vars

\* confirmations at the console one after the other, none interrupted and
\* none cancelled by its owner: a confirmation ends with an answer, with the
\* end of input or with its timeout
NextCliSequential ==
    \/ \E req \in CliRequests : CheckAndApproveTool(req)
    \/ Finish
    \/ Tick
    \/ \E text \in InputLines : CliReadLine(text)
    \/ CliEndOfInput
    \/ CliDeadlineExpires
    \/ \E text \in InputLines : ZombieReadLine(text)

SpecCliSequential == InitCli /\ [][NextCliSequential]_vars

----------------------------------------------------------------------------
(* Two calls on one approval object *)

\* the locals of the call that is running
CurrentFrame ==
    [pc |-> pc, tool_request |-> tool_request, elapsed |-> elapsed,
     handler_calls |-> handler_calls, handler_result |-> handler_result,
     timed_out |-> timed_out, approved |-> approved]

SharedRequests ==
    {req \in ToolRequests :
        /\ req.name \in {StrVal(<<"a">>), StrVal(<<"*">>)}
        /\ req.description = StrVal(<<>>)
        /\ DOMAIN req.args \subseteq {"p"}
        /\ \A a \in DOMAIN req.args : req.args[a] \in {StrVal(<<"A">>), BadVal}}

InitShared == Init /\ config.approval_ui_handler = "custom"

\* Switch with the request kept in a field of the approval object
Switch_shared_request ==
    /\ parked # CurrentFrame
    /\ parked' = CurrentFrame
    /\ pc' = parked.pc
    /\ elapsed' = parked.elapsed
    /\ handler_calls' = parked.handler_calls
    /\ handler_result' = parked.handler_result
    /\ timed_out' = parked.timed_out
    /\ approved' = parked.approved
    /\ UNCHANGED <<object, glue, tool_request, lines_read, zombie_readers>>

\* the event loop leaves the running call at its suspension point and runs
\* the other call: each call keeps its own locals, the object is shared
Switch ==
    /\ parked # CurrentFrame
    /\ parked' = CurrentFrame
    /\ pc' = parked.pc
    /\ tool_request' = parked.tool_request
    /\ elapsed' = parked.elapsed
    /\ handler_calls' = parked.handler_calls
    /\ handler_result' = parked.handler_result
    /\ timed_out' = parked.timed_out
    /\ approved' = parked.approved
    /\ UNCHANGED <<object, glue, lines_read, zombie_readers>>

NextShared ==
    \/ \E req \in SharedRequests : CheckAndApproveTool(req)
    \/ Finish
    \/ Tick
    \/ \E r \in Returns : HandlerReturns(r)
    \/ \E e \in Raises : HandlerRaises(e)
    \/ DeadlineExpires
    \/ Cancel
    \/ Switch

\* one approval object serving two calls, one after the other or interleaved
SpecShared == InitShared /\ [][NextShared]_vars

----------------------------------------------------------------------------
(* Construction of the approval object *)

\* approval_ui_handler as a constructor argument: omitted, the console
\* handler, the configured custom handler or another custom handler
HandlerParams == {"none", "cli", "custom", "other"}

\* configurations whose approval_ui_handler may be left at None
SelectConfigs ==
    {[c EXCEPT !.approval_ui_handler = h] :
        c \in {k \in Configs : k.kind = "tool"}, h \in {"none", "cli", "custom"}}

InitSelect ==
    /\ config \in SelectConfigs
    /\ handler_param \in HandlerParams
    /\ approval_ui_handler =
           select_approval_ui_handler(handler_param, config.approval_ui_handler)
    /\ InitCall
    /\ client = NoClient
    /\ server = NoServer

NextSelect ==
    \/ \E req \in SharedRequests : CheckAndApproveTool(req)
    \/ Finish
    \/ Tick
    \/ \E r \in Returns : HandlerReturns(r)
    \/ \E e \in Raises : HandlerRaises(e)
    \/ DeadlineExpires
    \/ Cancel

\* approval objects built with every combination of constructor argument
\* and configured handler
SpecSelect == InitSelect /\ [][NextSelect]_vars

----------------------------------------------------------------------------
(* execute_tool_calls: the orchestrator of ols_approval_client.py *)

\* all_tools: the names in tools_by_name (the tool "*" is not among them)
AllTools == {<<"a">>}

\* tool calls as the LLM produces them: name and args
ToolCalls ==
    { [name |-> StrVal(<<"a">>), args |-> <<>>],
      [name |-> StrVal(<<"*">>), args |-> <<>>],
      [name |-> StrVal(<<"a">>), args |-> [a \in {"p"} |-> BadVal]] }

ToolCallLists == UNION {[1..k -> ToolCalls] : k \in 0..MaxCalls}

\* the ToolRequest built for a tool call: tool.description if the tool is
\* known, else "" (the known tool has the empty description)
RequestOfCall(tool_call) ==
    [name |-> tool_call.name, description |-> StrVal(<<>>),
     args |-> tool_call.args]

\* how tool.ainvoke under call_with_timeout ends
ToolOutcomes == {"result", "timed_out", "tool_error"}

ToolMessage(id, content) ==
    [tool_call_id |-> id, content |-> content,
     status |-> IF content = "result" THEN "success" ELSE "error"]

ExecConfigs == {c \in Configs : c.dangerous_verbs = << <<"A">> >>}

\* FirstStep with the check made without an approval object too
FirstStep_checking(with_approval) == "check"

\* approval = None starts every call at the execution, an approval object
\* at the check
FirstStep(with_approval) == IF with_approval THEN "check" ELSE "execute"

InitExecute ==
    /\ config \in ExecConfigs
    /\ handler_param = "none"
    /\ approval_ui_handler =
           select_approval_ui_handler(handler_param, config.approval_ui_handler)
    /\ InitCall
    /\ server = NoServer
    /\ \E calls \in ToolCallLists, with_approval \in BOOLEAN :
           client = [kind |-> "execute", approval |-> with_approval,
                     tool_calls |-> calls, i |-> 1,
                     step |-> FirstStep(with_approval),
                     verdicts |-> <<>>, invoked |-> <<>>,
                     tool_messages |-> <<>>]

\* the loop is at a tool call
AtCall(step) ==
    /\ client.kind = "execute"
    /\ client.step = step
    /\ client.i <= Len(client.tool_calls)

\* await approval.check_and_approve_tool(tool_request) is entered
ExecCheck ==
    /\ AtCall("check")
    /\ CheckAndApproveTool(RequestOfCall(client.tool_calls[client.i]))

\* the frame of the call that ended is dropped
DropCall ==
    /\ pc' = "idle"
    /\ tool_request' = NoRequest
    /\ elapsed' = 0
    /\ handler_calls' = 0
    /\ handler_result' = "pending"
    /\ timed_out' = FALSE
    /\ approved' = FALSE
    /\ lines_read' = <<>>
    /\ UNCHANGED <<object, zombie_readers, parked, server>>

\* what execute_tool_calls makes of the end of the check: "true" goes on to
\* the execution, "false" and an Exception end the call with a message, a
\* cancellation is no Exception and leaves execute_tool_calls
ExecOutcome ==
    CASE pc = "returned" /\ approved -> "true"
      [] pc = "returned" -> "false"
      [] handler_result = "cancel" -> "cancelled"
      [] OTHER -> "raise"

\* ExecVerdict executing the tool whatever the check said
ExecVerdict_unchecked ==
    /\ AtCall("check")
    /\ pc \in {"returned", "raised"}
    /\ DropCall
    /\ client' = [client EXCEPT
           !.verdicts = Append(@, [id |-> client.i, verdict |-> ExecOutcome]),
           !.step = "execute"]

\* the check ended: execute_tool_calls from the end of the await to the
\* execution of the tool, or to the next tool call
ExecVerdict ==
    /\ AtCall("check")
    /\ pc \in {"returned", "raised"}
    /\ DropCall
    /\ LET v == ExecOutcome
       IN  client' = [client EXCEPT
               !.verdicts = Append(@, [id |-> client.i, verdict |-> v]),
               !.step = CASE v = "true" -> "execute"
                          [] v = "cancelled" -> "cancelled"
                          [] OTHER -> "check",
               !.i = IF v \in {"false", "raise"} THEN @ + 1 ELSE @,
               !.tool_messages =
                   CASE v = "false" -> Append(@, ToolMessage(client.i, "denied"))
                     [] v = "raise" -> Append(@, ToolMessage(client.i, "check_failed"))
                     [] OTHER -> @]

\* ExecuteTool appending no message for a tool that raised
ExecuteTool_dropping(outcome) ==
    /\ AtCall("execute")
    /\ LET call == client.tool_calls[client.i]
           found == call.name.val \in AllTools
       IN  client' = [client EXCEPT
               !.invoked = IF found THEN Append(@, client.i) ELSE @,
               !.tool_messages =
                   IF found /\ outcome = "tool_error" THEN @
                   ELSE Append(@, ToolMessage(client.i,
                                  IF found THEN outcome ELSE "not_found")),
               !.i = @ + 1,
               !.step = FirstStep(client.approval)]
    /\ UNCHANGED <<object, pc, tool_request, elapsed, handler_calls,
                   handler_result, timed_out, approved, lines_read,
                   zombie_readers, parked, server>>

\* the tool is looked up and run: not found, or tool.ainvoke ends with
\* outcome; the message is appended and the loop goes to the next call
ExecuteTool(outcome) ==
    /\ AtCall("execute")
    /\ LET call == client.tool_calls[client.i]
           found == call.name.val \in AllTools
       IN  client' = [client EXCEPT
               !.invoked = IF found THEN Append(@, client.i) ELSE @,
               !.tool_messages =
                   Append(@, ToolMessage(client.i,
                             IF found THEN outcome ELSE "not_found")),
               !.i = @ + 1,
               !.step = FirstStep(client.approval)]
    /\ UNCHANGED <<object, pc, tool_request, elapsed, handler_calls,
                   handler_result, timed_out, approved, lines_read,
                   zombie_readers, parked, server>>

NextExecute ==
    \/ ExecCheck
    \/ Tick
    \/ \E r \in Returns : HandlerReturns(r)
    \/ \E e \in Raises : HandlerRaises(e)
    \/ DeadlineExpires
    \/ Cancel
    \/ ExecVerdict
    \/ \E outcome \in ToolOutcomes : ExecuteTool(outcome)

\* execute_tool_calls over a list of tool calls, with or without an
\* approval object
SpecExecute == InitExecute /\ [][NextExecute]_vars

----------------------------------------------------------------------------
(* invoke_with_approval: the orchestrator of approval_client.py *)

\* an interrupt value with action_requests, and one without
Interrupt_(requests) == [has_requests |-> TRUE, action_requests |-> requests]
OtherInterrupt == [has_requests |-> FALSE, action_requests |-> <<>>]

Interrupts == {Interrupt_(requests) : requests \in ToolCallLists}
                  \cup {OtherInterrupt}

\* interrupts that come in pairs in one result
PairedInterrupts ==
    {OtherInterrupt,
     Interrupt_(<< [name |-> StrVal(<<"a">>), args |-> <<>>] >>)}

\* what agent.ainvoke returns: result["__interrupt__"], or <<>> for a result
\* without that key
AgentResults ==
    {<<>>} \cup {<<i>> : i \in Interrupts}
           \cup {<<i1, i2>> : i1 \in PairedInterrupts, i2 \in PairedInterrupts}

\* the ToolRequest built for an action request that carries no description:
\* the description is "Tool: " followed by the name
RequestOfAction(action_request) ==
    [name |-> action_request.name,
     description |-> IF action_request.name.type = "str"
                     THEN StrVal(<<"T", ":">> \o action_request.name.val)
                     ELSE action_request.name,
     args |-> action_request.args]

AgentConfigs ==
    {c \in ExecConfigs :
        /\ c.approval_ui_handler = "custom"
        /\ c.approval_rules \in
               {NoRules,
                [t \in {<<"a">>} |->
                    << Rule("q", << <<"A">> >>),
                       Rule("p", << <<"1">>, <<"A">> >>) >>]}}

NoResume == [requests |-> <<>>, decisions |-> <<>>, verdicts |-> <<>>]

InitAgent ==
    /\ config \in AgentConfigs
    /\ handler_param = "none"
    /\ approval_ui_handler =
           select_approval_ui_handler(handler_param, config.approval_ui_handler)
    /\ InitCall
    /\ server = NoServer
    /\ client = [kind |-> "agent", at |-> "invoke", result |-> <<>>,
                 interrupts |-> <<>>, k |-> 1, j |-> 1, decisions |-> <<>>,
                 verdicts |-> <<>>, resumes |-> 0, last_resume |-> NoResume]

\* the loop position after the interrupt at k, with result the latest
\* result of the agent: the next interrupt of the list being iterated, or
\* the test of the while loop on result
AfterInterrupt(c, result) ==
    IF c.k < Len(c.interrupts)
    THEN [c EXCEPT !.result = result, !.k = @ + 1, !.j = 1,
                   !.decisions = <<>>, !.verdicts = <<>>]
    ELSE [c EXCEPT !.result = result, !.interrupts = result, !.k = 1,
                   !.j = 1, !.decisions = <<>>, !.verdicts = <<>>,
                   !.at = IF result = <<>> THEN "done" ELSE "for"]

CallUntouched ==
    UNCHANGED <<object, pc, tool_request, elapsed, handler_calls,
                handler_result, timed_out, approved, lines_read,
                zombie_readers, parked, server>>

\* the first agent.ainvoke returns
AgentInvoke(result) ==
    /\ client.kind = "agent"
    /\ client.at = "invoke"
    /\ client' = [client EXCEPT !.result = result, !.interrupts = result,
                                !.at = IF result = <<>> THEN "done" ELSE "for"]
    /\ CallUntouched

\* the for loop is at an interrupt
AtInterrupt ==
    /\ client.kind = "agent"
    /\ client.at = "for"
    /\ client.k <= Len(client.interrupts)

\* an interrupt value without action_requests is passed over
AgentSkip ==
    /\ AtInterrupt
    /\ ~client.interrupts[client.k].has_requests
    /\ client' = AfterInterrupt(client, client.result)
    /\ CallUntouched

\* await approval.check_and_approve_tool(tool_request) is entered for the
\* next action request
AgentCheck ==
    /\ AtInterrupt
    /\ client.interrupts[client.k].has_requests
    /\ client.j <= Len(client.interrupts[client.k].action_requests)
    /\ CheckAndApproveTool(
           RequestOfAction(client.interrupts[client.k].action_requests[client.j]))

\* the check ended: the decision is appended, or the exception leaves
\* invoke_with_approval, which has no handler for it
AgentVerdict ==
    /\ AtInterrupt
    /\ pc \in {"returned", "raised"}
    /\ DropCall
    /\ LET v == ExecOutcome
       IN  client' = [client EXCEPT
               !.verdicts = Append(@, v),
               !.decisions = CASE v = "true" -> Append(@, "approve")
                               [] v = "false" -> Append(@, "reject")
                               [] OTHER -> @,
               !.j = IF v \in {"true", "false"} THEN @ + 1 ELSE @,
               !.at = CASE v = "raise" -> "crashed"
                        [] v = "cancelled" -> "cancelled"
                        [] OTHER -> @]

\* every action request has its decision: agent.ainvoke(Command(resume=
\* {"decisions": decisions})) is awaited and returns result
AgentResume(result) ==
    /\ AtInterrupt
    /\ client.interrupts[client.k].has_requests
    /\ client.j > Len(client.interrupts[client.k].action_requests)
    /\ pc = "idle"
    /\ client.resumes < MaxResumes
    /\ client' = [AfterInterrupt(client, result) EXCEPT
           !.resumes = @ + 1,
           !.last_resume =
               [requests |-> client.interrupts[client.k].action_requests,
                decisions |-> client.decisions,
                verdicts |-> client.verdicts]]
    /\ CallUntouched

NextAgent ==
    \/ \E result \in AgentResults : AgentInvoke(result)
    \/ AgentSkip
    \/ AgentCheck
    \/ Tick
    \/ \E r \in Returns : HandlerReturns(r)
    \/ \E e \in Raises : HandlerRaises(e)
    \/ DeadlineExpires
    \/ Cancel
    \/ AgentVerdict
    \/ \E result \in AgentResults : AgentResume(result)

\* invoke_with_approval with an agent that interrupts on every tool call
SpecAgent == InitAgent /\ [][NextAgent]_vars

----------------------------------------------------------------------------
(* iterate_with_tools: the rounds of ols_approval_client.py *)

\* a chunk of the LLM's response: finish_reason "stop", a chunk with
\* tool_call_chunks, or anything else (text, the timeout's error chunk)
ChunkKinds == {"stop", "tool", "text"}

InitRounds ==
    /\ config \in ExecConfigs
    /\ handler_param = "none"
    /\ approval_ui_handler =
           select_approval_ui_handler(handler_param, config.approval_ui_handler)
    /\ InitCall
    /\ server = NoServer
    /\ \E max_rounds \in 0..MaxRounds, tools \in BOOLEAN :
           client = [kind |-> "rounds", max_rounds |-> max_rounds,
                     all_tools |-> tools, i |-> 1,
                     at |-> IF max_rounds >= 1 THEN "llm" ELSE "done",
                     bound |-> <<>>, chunks |-> 0, tool_call_chunks |-> 0,
                     final_tool_chunks |-> 0, executed |-> <<>>]

is_final_round == client.i = client.max_rounds

\* _invoke_llm starts: tools are bound unless the round is final or there
\* are no tools
InvokeLLM ==
    /\ client.kind = "rounds"
    /\ client.at = "llm"
    /\ client' = [client EXCEPT
           !.bound = Append(@, ~is_final_round /\ client.all_tools),
           !.chunks = 0, !.tool_call_chunks = 0, !.at = "stream"]
    /\ CallUntouched

\* the stream delivers a chunk
Chunk(kind) ==
    /\ client.kind = "rounds"
    /\ client.at = "stream"
    /\ client.chunks < MaxChunks
    /\ client' = [client EXCEPT
           !.chunks = @ + 1,
           !.tool_call_chunks = IF kind = "tool" THEN @ + 1 ELSE @,
           !.final_tool_chunks =
               IF kind = "tool" /\ is_final_round THEN @ + 1 ELSE @,
           !.at = IF kind = "stop" THEN "done" ELSE @]
    /\ CallUntouched

\* StreamEnds going on to the tools in the final round too
StreamEnds_no_break ==
    /\ client.kind = "rounds"
    /\ client.at = "stream"
    /\ client' = [client EXCEPT
           !.at = CASE client.tool_call_chunks > 0 -> "tools"
                    [] is_final_round -> "done"
                    [] OTHER -> "llm",
           !.i = IF client.tool_call_chunks = 0 /\ ~is_final_round
                 THEN @ + 1 ELSE @]
    /\ CallUntouched

\* the stream is exhausted: break in the final round, else the tool calling
\* part if chunks with tool calls were collected, else the next round
StreamEnds ==
    /\ client.kind = "rounds"
    /\ client.at = "stream"
    /\ client' = [client EXCEPT
           !.at = CASE is_final_round -> "done"
                    [] client.tool_call_chunks > 0 -> "tools"
                    [] OTHER -> "llm",
           !.i = IF ~is_final_round /\ client.tool_call_chunks = 0
                 THEN @ + 1 ELSE @]
    /\ CallUntouched

\* the tool calling part: execute_tool_calls is awaited and returns, its
\* messages are yielded and the next round begins
ExecuteRound ==
    /\ client.kind = "rounds"
    /\ client.at = "tools"
    /\ client' = [client EXCEPT
           !.executed = Append(@, client.i),
           !.i = @ + 1,
           !.at = IF client.i < client.max_rounds THEN "llm" ELSE "done"]
    /\ CallUntouched

NextRounds ==
    \/ InvokeLLM
    \/ \E kind \in ChunkKinds : Chunk(kind)
    \/ StreamEnds
    \/ ExecuteRound

\* iterate_with_tools consumed to its end: the stream of the LLM ends
\* (asyncio.timeout(LLM_TIMEOUT) bounds it) and execute_tool_calls returns
SpecRounds == InitRounds /\ [][NextRounds]_vars /\ WF_vars(NextRounds)

----------------------------------------------------------------------------
(* The tools of the mock server under the evaluators *)

\* the default of ToolLevelApprovalConfig.dangerous_verbs
DefaultVerbs ==
    << <<"d", "e", "l", "e", "t", "e">>,
       <<"r", "e", "m", "o", "v", "e">>,
       <<"d", "r", "o", "p">>,
       <<"t", "r", "u", "n", "c", "a", "t", "e">>,
       <<"d", "e", "s", "t", "r", "o", "y">>,
       <<"k", "i", "l", "l">>,
       <<"t", "e", "r", "m", "i", "n", "a", "t", "e">>,
       <<"s", "h", "u", "t", "d", "o", "w", "n">>,
       <<"r", "e", "b", "o", "o", "t">>,
       <<"r", "e", "s", "t", "a", "r", "t">>,
       <<"m", "o", "d", "i", "f", "y">>,
       <<"u", "p", "d", "a", "t", "e">>,
       <<"e", "x", "e", "c", "u", "t", "e">>,
       <<"r", "u", "n">>,
       <<"e", "v", "a", "l">> >>

\* the tools of tools/list, by name and description
MockTools ==
    << [name |-> <<"l", "i", "s", "t", "_", "u", "s", "e", "r", "s">>,
        description |->
            <<"L", "i", "s", "t", " ", "a", "l", "l", " ", "u", "s", "e", "r",
            "s", " ", "i", "n", " ", "t", "h", "e", " ", "s", "y", "s", "t",
            "e", "m">>],

       [name |-> <<"g", "e", "t", "_", "f", "i", "l", "e">>,
        description |->
            <<"R", "e", "t", "r", "i", "e", "v", "e", " ", "t", "h", "e", " ",
            "c", "o", "n", "t", "e", "n", "t", " ", "o", "f", " ", "a", " ",
            "f", "i", "l", "e">>],

       [name |-> <<"s", "e", "a", "r", "c", "h", "_", "l", "o", "g", "s">>,
        description |->
            <<"S", "e", "a", "r", "c", "h", " ", "t", "h", "r", "o", "u", "g",
            "h", " ", "s", "y", "s", "t", "e", "m", " ", "l", "o", "g", "s">>],

       [name |-> <<"d", "e", "l", "e", "t", "e", "_", "f", "i", "l", "e">>,
        description |->
            <<"D", "e", "l", "e", "t", "e", " ", "a", " ", "f", "i", "l", "e",
            " ", "f", "r", "o", "m", " ", "t", "h", "e", " ", "f", "i", "l",
            "e", "s", "y", "s", "t", "e", "m", " ", "(", "d", "e", "s", "t",
            "r", "u", "c", "t", "i", "v", "e", " ", "o", "p", "e", "r", "a",
            "t", "i", "o", "n", ")">>],

       [name |-> <<"s", "e", "n", "d", "_", "e", "m", "a", "i", "l">>,
        description |->
            <<"S", "e", "n", "d", " ", "a", "n", " ", "e", "m", "a", "i", "l",
            " ", "t", "o", " ", "r", "e", "c", "i", "p", "i", "e", "n", "t",
            "s", " ", "(", "e", "x", "t", "e", "r", "n", "a", "l", " ", "c",
            "o", "m", "m", "u", "n", "i", "c", "a", "t", "i", "o", "n", ")">>],

       [name |-> <<"e", "x", "e", "c", "u", "t", "e", "_", "c", "o", "m", "m",
                "a", "n", "d">>,
        description |->
            <<"E", "x", "e", "c", "u", "t", "e", " ", "a", " ", "s", "y", "s",
            "t", "e", "m", " ", "c", "o", "m", "m", "a", "n", "d", " ", "(",
            "p", "o", "t", "e", "n", "t", "i", "a", "l", "l", "y", " ", "d",
            "a", "n", "g", "e", "r", "o", "u", "s", ")">>],

       [name |-> <<"m", "o", "d", "i", "f", "y", "_", "d", "a", "t", "a", "b",
                "a", "s", "e">>,
        description |->
            <<"M", "o", "d", "i", "f", "y", " ", "d", "a", "t", "a", "b", "a",
            "s", "e", " ", "r", "e", "c", "o", "r", "d", "s", " ", "(", "d",
            "e", "s", "t", "r", "u", "c", "t", "i", "v", "e", " ", "o", "p",
            "e", "r", "a", "t", "i", "o", "n", ")">>] >>

DocumentedSafe == {MockTools[1].name, MockTools[2].name, MockTools[3].name}
DocumentedDangerous ==
    {MockTools[4].name, MockTools[5].name, MockTools[6].name, MockTools[7].name}

\* the description create_approval_agent gives the interrupt of a tool; the
\* warning sign is written "!"
InterruptDescription(tool) ==
    <<"!", " ", " ">> \o tool.name
        \o <<" ", "r", "e", "q", "u", "i", "r", "e", "s", " ", "a", "p",
           "p", "r", "o", "v", "a", "l", ":", " ">>
        \o tool.description

\* the commands of the calls to execute_command
Commands ==
    { <<"l", "s", " ", "-", "l", "a">>,
      <<"s", "y", "s", "t", "e", "m", "c", "t", "l", " ", "s", "t", "a", "t", "u", "s", " ", "a", "p", "p">>,
      <<"d", "e", "p", "l", "o", "y", " ", "t", "o", " ", "P", "R", "O", "D", "U", "C", "T", "I", "O", "N">>,
      <<"t", "a", "i", "l", " ", "l", "i", "v", "e", ".", "l", "o", "g">> }

\* the arguments of a call to the tool
MockArgs(tool) ==
    CASE tool.name = MockTools[6].name ->
             {[a \in {"command"} |-> StrVal(c)] : c \in Commands}
      [] tool.name = MockTools[5].name ->
             {[a \in {"to"} |-> StrVal(<<"t", "e", "a", "m", "@", "e", "x", "a", "m", "p", "l", "e", ".", "c", "o", "m">>)]}
      [] OTHER -> {<<>>}

MockRequests ==
    UNION {[name : {StrVal(MockTools[n].name)},
            description : {StrVal(MockTools[n].description),
                           StrVal(InterruptDescription(MockTools[n]))},
            args : MockArgs(MockTools[n])] : n \in DOMAIN MockTools}

\* ToolLevelApprovalConfig() with its default verbs
DefaultConfigs ==
    [kind : {"tool"},
     dangerous_verbs : {DefaultVerbs},
     approval_rules : {NoRules},
     approval_timeout : Timeouts,
     on_approval_timeout_auto_approve : BOOLEAN,
     approval_ui_handler : {"cli", "custom"}]

\* the configuration of demo_custom_config
DemoConfig ==
    [kind |-> "call",
     dangerous_verbs |-> << <<"s", "e", "n", "d">>,
                            <<"e", "m", "a", "i", "l">>,
                            <<"n", "o", "t", "i", "f", "y">>,
                            <<"e", "x", "e", "c", "u", "t", "e">> >>,
     approval_rules |->
         (MockTools[5].name :> << Rule("to", << <<"*">> >>) >>)
         @@ (MockTools[6].name :>
                << Rule("command",
                        << <<"p", "r", "o", "d", "u", "c", "t", "i", "o", "n">>,
                           <<"l", "i", "v", "e">> >>) >>),
     approval_timeout |-> 10,
     on_approval_timeout_auto_approve |-> FALSE,
     approval_ui_handler |-> "cli"]

InitMock ==
    /\ config \in DefaultConfigs \cup {DemoConfig}
    /\ handler_param = "none"
    /\ approval_ui_handler =
           select_approval_ui_handler(handler_param, config.approval_ui_handler)
    /\ InitCall
    /\ client = NoClient
    /\ server = NoServer

NextMock ==
    \/ \E req \in MockRequests : CheckAndApproveTool(req)
    \/ Finish
    \/ Tick
    \/ \E r \in Returns : HandlerReturns(r)
    \/ \E e \in Raises : HandlerRaises(e)
    \/ DeadlineExpires
    \/ Cancel

\* the evaluators given the calls to the tools of the mock server
SpecMock == InitMock /\ [][NextMock]_vars

----------------------------------------------------------------------------
(* The mock server: do_POST of mcp_server.py *)

\* JSON values as far as the handlers look at them: a member that is absent,
\* null, a string, a number, a list, or an object
Json(type, val) == [type |-> type, val |-> val]
Absent == Json("absent", "")
JsonNull == Json("null", "")
JsonObject == Json("object", "")

\* the tools whose branch of _execute_tool calls arguments.get
ReadingTools == {"get_file", "search_logs", "delete_file", "send_email",
                 "execute_command", "modify_database"}

PostIds == {Absent, JsonNull, Json("number", "7")}
PostMethods == {Absent, Json("str", "initialize"), Json("str", "tools/list"),
                Json("str", "tools/call"), Json("str", "ping")}
PostNames == {Absent, Json("str", "list_users"), Json("str", "get_file"),
              Json("str", "delete_file"), Json("str", "no_such_tool")}
PostArguments == {Absent, JsonObject, JsonNull, Json("str", "x")}

\* params: absent, null, a list, or an object with its name and arguments
PostParams ==
    [type : {"absent", "null", "list"}, name : {Absent}, arguments : {Absent}]
    \cup [type : {"object"}, name : PostNames, arguments : PostArguments]

\* the body of a POST: an object, bytes that are not JSON, or a JSON array
Posts ==
    [body : {"object"}, id : PostIds, method : PostMethods, params : PostParams]
    \cup [body : {"invalid", "array"}, id : {Absent}, method : {Absent},
          params : [type : {"absent"}, name : {Absent}, arguments : {Absent}]]

NoPost == [body |-> "none", id |-> Absent, method |-> Absent,
           params |-> [type |-> "absent", name |-> Absent, arguments |-> Absent]]

\* dict.get(key, default) on a member that may be absent
Get(member, default) == IF member = Absent THEN default ELSE member

\* what the connection gets: the JSON-RPC response written, or nothing when
\* an exception left do_POST
Sent(id, result, isError) ==
    [status |-> "sent", id |-> id, result |-> result, isError |-> isError]
Raised == [status |-> "raised", id |-> Absent, result |-> "none",
           isError |-> Absent]
NoResponse == [status |-> "none", id |-> Absent, result |-> "none",
               isError |-> Absent]

\* _execute_tool raises: the branch of the tool calls arguments.get and
\* arguments is not an object
execute_tool_raises(tool_name, arguments) ==
    /\ tool_name.type = "str"
    /\ tool_name.val \in ReadingTools
    /\ arguments.type # "object"

\* _handle_tools_call
handle_tools_call(request_id, request_data) ==
    LET params == IF request_data.params.type = "absent"
                  THEN [type |-> "object", name |-> Absent,
                        arguments |-> Absent]
                  ELSE request_data.params
    IN  IF params.type # "object" THEN Raised
        ELSE LET tool_name == Get(params.name, Json("str", "unknown"))
                 arguments == Get(params.arguments, JsonObject)
             IN  IF execute_tool_raises(tool_name, arguments) THEN Raised
                 ELSE Sent(request_id, "content", Json("bool", "false"))

\* the response of do_POST to a body that parsed to request_data
Respond(request_data) ==
    LET request_id == Get(request_data.id, Json("number", "1"))
        method == Get(request_data.method, Json("str", "unknown"))
    IN  CASE method.val = "initialize" -> Sent(request_id, "serverInfo", Absent)
          [] method.val = "tools/list" -> Sent(request_id, "tools", Absent)
          [] method.val = "tools/call" ->
                 handle_tools_call(request_id, request_data)
          [] OTHER -> Sent(request_id, "status", Absent)

\* the server has no approval object: the approval side stays idle under
\* ToolLevelApprovalConfig()
InitServer ==
    /\ config \in {c \in DefaultConfigs :
                       /\ c.approval_timeout = 0
                       /\ ~c.on_approval_timeout_auto_approve
                       /\ c.approval_ui_handler = "cli"}
    /\ handler_param = "none"
    /\ approval_ui_handler =
           select_approval_ui_handler(handler_param, config.approval_ui_handler)
    /\ InitCall
    /\ client = NoClient
    /\ server = [kind |-> "server", request_log |-> 0, request |-> NoPost,
                 response |-> NoResponse]

\* do_POST: a JSON array has no get and the exception leaves before the log;
\* bytes that are not JSON are answered as an unknown method with id 1; the
\* log keeps its last 50 entries (only their number is kept here)
do_POST(post) ==
    /\ server.kind = "server"
    /\ server' = [server EXCEPT
           !.request = post,
           !.request_log = IF post.body = "array" THEN @
                           ELSE IF @ + 1 > 50 THEN 50 ELSE @ + 1,
           !.response = CASE post.body = "array" -> Raised
                          [] post.body = "invalid" -> Respond(NoPost)
                          [] OTHER -> Respond(post)]
    /\ UNCHANGED <<object, pc, tool_request, elapsed, handler_calls,
                   handler_result, timed_out, approved, lines_read,
                   zombie_readers, parked, client>>

NextServer == \E post \in Posts : do_POST(post)

SpecServer == InitServer /\ [][NextServer]_vars

----------------------------------------------------------------------------
(* Vocabulary of the properties *)

\* the current call's request has a name and a description that are strings
StringFields == ~LowerRaises(tool_request.name)
                /\ ~LowerRaises(tool_request.description)

\* some configured verb, lower-cased, is a substring of the lower-cased text
VerbIn(text) ==
    \E i \in 1..Len(config.dangerous_verbs) :
        IsSubstring(Lower(config.dangerous_verbs[i]), Lower(text))

\* the request's name or description contains a configured dangerous verb
SomeVerbInRequest ==
    VerbIn(tool_request.name.val) \/ VerbIn(tool_request.description.val)

\* every argument value of the request has a string form
ArgsPrintable ==
    \A a \in DOMAIN tool_request.args : ~StrRaises(tool_request.args[a])

\* the request's tool name has an entry in approval_rules
HasRules == tool_request.name.val \in DOMAIN config.approval_rules

RulesOfTool == config.approval_rules[tool_request.name.val]

\* some configured argument is present and the lower-cased string form of its
\* value contains one of its keywords, lower-cased
SomeRuleMatches ==
    \E i \in 1..Len(RulesOfTool) :
        /\ RulesOfTool[i].arg \in DOMAIN tool_request.args
        /\ ~StrRaises(tool_request.args[RulesOfTool[i].arg])
        /\ \E k \in 1..Len(RulesOfTool[i].keywords) :
               IsSubstring(Lower(RulesOfTool[i].keywords[k]),
                           Lower(Str(tool_request.args[RulesOfTool[i].arg])))

\* some configured argument with the keyword "*" is present in args
WildcardArgPresent ==
    \E i \in 1..Len(RulesOfTool) :
        /\ RulesOfTool[i].arg \in DOMAIN tool_request.args
        /\ \E k \in 1..Len(RulesOfTool[i].keywords) :
               RulesOfTool[i].keywords[k] = <<"*">>

AutoPermitted == pc = "returned" /\ approved /\ handler_calls = 0
Denied == pc = "returned" /\ ~approved

----------------------------------------------------------------------------
(* Properties *)

C2_SafeToolAutoPermitted ==
    ( /\ config.kind = "tool"
      /\ pc # "idle"
      /\ StringFields
      /\ ~SomeVerbInRequest )
    => AutoPermitted

C2_Witness ==
    /\ config.kind = "tool"
    /\ pc = "returned"
    /\ StringFields
    /\ ~SomeVerbInRequest
    /\ config.dangerous_verbs # <<>>
    /\ Len(tool_request.name.val) = MaxLen
    /\ tool_request.description.val # <<>>

\* C3: tool-level evaluation of a request whose name or description contains
\* a configured verb (case-insensitive substring) invokes the handler exactly
\* once, and when the handler returns a boolean before the deadline the
\* evaluation returns that boolean.
C3_DangerousToolAsksOnce ==
    ( /\ config.kind = "tool"
      /\ pc # "idle"
      /\ StringFields
      /\ SomeVerbInRequest )
    => ( /\ handler_calls = 1
         /\ handler_result = "ret_true" => (pc = "returned" /\ approved)
         /\ handler_result = "ret_false" => (pc = "returned" /\ ~approved) )

C3_Witness ==
    /\ config.kind = "tool"
    /\ pc = "returned"
    /\ StringFields
    /\ SomeVerbInRequest
    /\ ~VerbIn(tool_request.name.val)
    /\ handler_result = "ret_false"
    /\ config.on_approval_timeout_auto_approve
    /\ ~approved

C5_EveryCallReturnsVerdict ==
    (pc = "waiting") ~> (pc = "returned")

\* C6 as stated: when the approval handler raises an error during an
\* escalated evaluation, check_and_approve_tool returns false and the error
\* does not reach the caller.
C6_HandlerErrorDenied ==
    (handler_result = "raise_error") => Denied

\* C7 as stated: when classification itself fails (a request field cannot be
\* lower-cased, str() of an argument value raises), the evaluation ends with
\* the verdict false and never with an exception.
C7_ClassificationFaultDenied ==
    (pc # "idle" /\ Classify(config, tool_request) = "raise") => Denied

\* C8 as stated: when the tool's approval_rules entry lists the keyword "*"
\* for an argument that is present in args, the call is escalated to the
\* handler whatever the argument's value.
C8_WildcardEscalates ==
    ( /\ config.kind = "call"
      /\ pc # "idle"
      /\ StringFields
      /\ ArgsPrintable
      /\ HasRules
      /\ WildcardArgPresent )
    => handler_calls = 1

\* C9: call-level evaluation of a tool that is not tool-level dangerous and
\* has an approval_rules entry escalates exactly when some configured
\* argument is present and the lower-cased string form of its value contains
\* one of its keywords (lower-cased); otherwise the call is auto-permitted
\* without invoking the handler.  Argument values have a string form.
C9_KeywordRule ==
    ( /\ config.kind = "call"
      /\ pc # "idle"
      /\ StringFields
      /\ ~SomeVerbInRequest
      /\ HasRules
      /\ ArgsPrintable )
    => ( /\ handler_calls = 1 <=> SomeRuleMatches
         /\ ~SomeRuleMatches => AutoPermitted )

C9_Witness ==
    /\ config.kind = "call"
    /\ pc = "waiting"
    /\ StringFields
    /\ ~SomeVerbInRequest
    /\ HasRules
    /\ ArgsPrintable
    /\ SomeRuleMatches
    /\ "p" \in DOMAIN tool_request.args
    /\ tool_request.args["p"] = StrVal(<<"A">>)
    /\ "q" \notin DOMAIN tool_request.args

\* C10: a call whose tool name has no entry in approval_rules is never
\* flagged by the argument check, whatever its arguments contain; when it is
\* not tool-level dangerous either it is auto-permitted without invoking the
\* handler.
C10_OnlyDeclaredRules ==
    ( /\ config.kind = "call"
      /\ pc # "idle"
      /\ StringFields
      /\ ~HasRules )
    => ( /\ check_arguments_dangerous(config, tool_request) = "false"
         /\ handler_calls = 1 <=> SomeVerbInRequest
         /\ ~SomeVerbInRequest => AutoPermitted )

C10_Witness ==
    /\ config.kind = "call"
    /\ DOMAIN config.approval_rules # {}
    /\ AutoPermitted
    /\ StringFields
    /\ ~HasRules
    /\ tool_request.name.val = <<"A">>
    /\ "p" \in DOMAIN tool_request.args
    /\ tool_request.args["p"] = StrVal(<<"*">>)
    /\ "q" \in DOMAIN tool_request.args
    /\ tool_request.args["q"] = BadVal

\* C11 as stated: with the same dangerous_verbs, every request that
\* ToolLevelApproval escalates is escalated by CallLevelApproval, and
\* CallLevelApproval auto-permits a request exactly when ToolLevelApproval
\* auto-permits it and no argument rule matches.
C11_CallSubsumesTool ==
    ( /\ config.kind = "call"
      /\ pc # "idle"
      /\ StringFields )
    => ( /\ ToolLevelClassify(config, tool_request) = "dangerous"
                => handler_calls = 1
         /\ AutoPermitted
                <=> ( /\ ToolLevelClassify(config, tool_request) = "safe"
                      /\ ~(HasRules /\ SomeRuleMatches) ) )

\* a string that is empty or consists of blanks only
Blank(s) == \A i \in 1..Len(s) : s[i] = " "

\* C16 as stated: no configuration with a deadline that is zero or negative
\* exists, and none is used by an evaluation.
C16_PositiveDeadline ==
    config.approval_timeout > 0

\* C17 as stated: a tool request whose name is empty or whitespace-only never
\* reaches check_and_approve_tool and is never auto-permitted.
C17_NoBlankName ==
    (pc # "idle" /\ tool_request.name.type = "str")
    => ~Blank(tool_request.name.val)

\* C20 as stated: when the approval times out the verdict is true if
\* on_approval_timeout_auto_approve is True and false if it is False, for
\* every handler, the default CLI handler included.
C20_TimeoutOutcomeConfigurable ==
    (timed_out /\ pc = "returned" /\ config.approval_timeout > 0)
    => (approved <=> config.on_approval_timeout_auto_approve)

----------------------------------------------------------------------------
(* The console handler's properties *)

\* text is the one character lower or upper, with blanks around it at most
IsAnswer(text, lower, upper) ==
    \E i \in 1..Len(text) :
        /\ text[i] \in {lower, upper}
        /\ \A j \in 1..Len(text) : j # i => text[j] = " "

\* the first k deliveries are lines that answer neither yes nor no
Undecided(k) ==
    \A i \in 1..k :
        /\ lines_read[i].kind = "line"
        /\ ~IsAnswer(lines_read[i].text, "y", "Y")
        /\ ~IsAnswer(lines_read[i].text, "n", "N")

LastDelivery == lines_read[Len(lines_read)]

C14_NoStaleResponse ==
    [][ /\ timed_out' => pc' \in {"returned", "raised"}
        /\ pc \in {"returned", "raised"} =>
               \/ pc' = "idle"
               \/ /\ pc' = pc
                  /\ approved' = approved
                  /\ handler_result' = handler_result
                  /\ handler_calls' = handler_calls ]_vars

\* the confirmation timed out with a denial, and afterwards every abandoned
\* reader got a line
C14_Witness ==
    /\ pc = "returned"
    /\ timed_out
    /\ ~approved
    /\ zombie_readers = 0

\* C18: the console handler returns True only on a line that is 'y' once
\* trimmed and lower-cased, False only on such an 'n' line (or on end of
\* input or an interrupt), keeps waiting after any other line, and the first
\* 'y'/'n' line decides.
C18_PromptLoop ==
    LET n == Len(lines_read)
    IN  /\ pc = "waiting" => Undecided(n)
        /\ handler_result = "ret_true" =>
               /\ n > 0 /\ Undecided(n - 1)
               /\ LastDelivery.kind = "line"
               /\ IsAnswer(LastDelivery.text, "y", "Y")
        /\ handler_result = "ret_false" =>
               /\ n > 0 /\ Undecided(n - 1)
               /\ \/ LastDelivery.kind # "line"
                  \/ IsAnswer(LastDelivery.text, "n", "N")
        /\ (n > 0 /\ LastDelivery.kind = "line") =>
               /\ IsAnswer(LastDelivery.text, "y", "Y")
                      => (handler_result = "ret_true" /\ approved)
               /\ IsAnswer(LastDelivery.text, "n", "N")
                      => (handler_result = "ret_false" /\ ~approved)

\* an invalid line, then a capital Y after a blank: approved
C18_Witness ==
    /\ pc = "returned" /\ approved
    /\ lines_read = <<Line(<<"y", "n">>), Line(<<" ", "Y">>)>>

\* C19: end of input, an interrupt, the deadline or a cancellation while the
\* console handler waits for input end the confirmation with the handler's
\* False (a denial, whatever on_approval_timeout_auto_approve says), never
\* with an exception.
C19_CliNeverRaises ==
    ( /\ pc \in {"returned", "raised"}
      /\ handler_calls = 1
      /\ \/ handler_result \in {"deadline", "cancel"}
         \/ (Len(lines_read) > 0 /\ LastDelivery.kind \in {"eof", "interrupt"}) )
    => (pc = "returned" /\ ~approved)

\* the input ended after an empty line, with auto-approval on timeout set
C19_Witness ==
    /\ pc = "returned"
    /\ config.on_approval_timeout_auto_approve
    /\ Len(lines_read) = 2
    /\ LastDelivery.kind = "eof"

----------------------------------------------------------------------------
(* Properties of two calls on one object *)

\* a call that has produced its outcome
Ended(frame) == frame.pc \in {"returned", "raised"}

\* the outcome of a call made alone on the object: of the request and of how
\* its handler invocation, if any, ends
AloneOutcome(req, event) ==
    LET c == Classify(config, req)
        verdict == call_approval_handler_with_timeout(
                       call_with_timeout(approval_ui_handler, event),
                       config.on_approval_timeout_auto_approve)
    IN  CASE c = "raise" -> [pc |-> "raised", approved |-> FALSE, handler_calls |-> 0]
          [] c = "safe" -> [pc |-> "returned", approved |-> TRUE, handler_calls |-> 0]
          [] OTHER -> [pc |-> IF verdict = "raise" THEN "raised" ELSE "returned",
                       approved |-> (verdict = "true"), handler_calls |-> 1]

----------------------------------------------------------------------------
(* The documented limitation of the console handler *)

\* the console handler read a line and asks again
AsksAgain == pc = "waiting" /\ pc' = "waiting" /\ lines_read' # lines_read

----------------------------------------------------------------------------
(* The handler an approval object uses *)

\* the handler by the stated priority: the constructor argument, else the
\* configured handler, else the console handler
ChosenHandler ==
    CASE handler_param # "none" -> handler_param
      [] config.approval_ui_handler # "none" -> config.approval_ui_handler
      [] OTHER -> "cli"

\* C22: the object's handler is the constructor argument if given, else
\* config.approval_ui_handler if set, else the default console handler, in
\* every state of the object's life; and an escalation invokes that handler:
\* a confirmation that times out ends as with that handler (a denial with
\* the console handler, on_approval_timeout_auto_approve with any other).
C22_HandlerPriority ==
    /\ approval_ui_handler = ChosenHandler
    /\ (pc = "returned" /\ timed_out) =>
           (approved <=> ( /\ ChosenHandler # "cli"
                           /\ config.on_approval_timeout_auto_approve ))

\* a custom handler given to the constructor went before the configured
\* console handler: the timed-out confirmation was auto-approved
C22_Witness ==
    /\ handler_param = "other"
    /\ config.approval_ui_handler = "cli"
    /\ pc = "returned" /\ timed_out /\ approved

----------------------------------------------------------------------------
(* Properties of execute_tool_calls *)

\* the ids in a sequence of ids
Ids(seq) == {seq[n] : n \in 1..Len(seq)}

\* the verdicts recorded for tool call id
VerdictsOf(id) ==
    {client.verdicts[n].verdict :
        n \in {m \in 1..Len(client.verdicts) : client.verdicts[m].id = id}}

\* the messages appended for tool call id
MessagesOf(id) ==
    {client.tool_messages[n] :
        n \in {m \in 1..Len(client.tool_messages) :
                  client.tool_messages[m].tool_call_id = id}}

\* C23: with an approval object, a tool is invoked only for a call whose
\* own check returned true; a call whose check returned false is never
\* invoked and gets one error message saying it was denied; and the loop
\* goes on: every call before the current one has its message.
C23_ExecutorHonoursVerdict ==
    (client.kind = "execute" /\ client.approval)
    => /\ \A id \in Ids(client.invoked) : VerdictsOf(id) = {"true"}
       /\ \A id \in 1..Len(client.tool_calls) :
              "false" \in VerdictsOf(id) =>
                  /\ id \notin Ids(client.invoked)
                  /\ MessagesOf(id) = {ToolMessage(id, "denied")}
                  /\ ToolMessage(id, "denied").status = "error"
       /\ client.step # "cancelled" =>
              /\ Len(client.tool_messages) = client.i - 1
              /\ \A n \in 1..Len(client.tool_messages) :
                     client.tool_messages[n].tool_call_id = n

\* the first call was denied and the second one was run
C23_Witness ==
    /\ client.kind = "execute" /\ client.approval
    /\ Len(client.tool_calls) = 2 /\ client.i = 3
    /\ VerdictsOf(1) = {"false"}
    /\ client.invoked = <<2>>

\* C28: without an approval object every tool call is run unasked (no
\* check, no handler invocation, every known tool invoked); with one, every
\* call that was run or answered went through its check first.
C28_NoApprovalMode ==
    client.kind = "execute"
    => /\ ~client.approval =>
              /\ pc = "idle" /\ handler_calls = 0
              /\ client.verdicts = <<>>
              /\ \A id \in 1..(client.i - 1) :
                     client.tool_calls[id].name.val \in AllTools
                         => id \in Ids(client.invoked)
       /\ client.approval =>
              \A id \in 1..(client.i - 1) : VerdictsOf(id) # {}

\* two calls of the tool that needs approval were run without any check
C28_Witness ==
    /\ client.kind = "execute" /\ ~client.approval
    /\ client.invoked = <<1, 2>>
    /\ \A id \in 1..2 : client.tool_calls[id].name = StrVal(<<"a">>)

\* the decisions of a resumption answer its action requests one for one, in
\* order, approve for the verdict True and reject for the verdict False
ResumeMatches(resume) ==
    /\ Len(resume.verdicts) = Len(resume.requests)
    /\ Len(resume.decisions) = Len(resume.requests)
    /\ \A n \in DOMAIN resume.decisions :
           resume.decisions[n] = "approve" <=> resume.verdicts[n] = "true"

\* C24: an approval check that raises is a denial in invoke_with_approval
\* too: the action request whose check raised gets a reject decision and the
\* orchestrator does not end with the exception.
C24_FailureIsDenial ==
    client.kind = "agent" =>
        \A n \in DOMAIN client.verdicts :
            client.verdicts[n] = "raise" =>
                /\ client.at # "crashed"
                /\ n \in DOMAIN client.decisions
                /\ client.decisions[n] = "reject"

\* C30: an interrupt that carries action requests is left only by a
\* resumption, and every resumption has one decision per action request, in
\* request order, approve exactly for the verdict True.
C30_OneDecisionPerRequest ==
    client.kind = "agent" =>
        /\ ResumeMatches(client.last_resume)
        /\ client.at = "crashed" =>
               Len(client.decisions)
                   = Len(client.interrupts[client.k].action_requests)

\* the part of C30 that the code keeps: what is sent is well formed
C30_SentDecisionsMatch ==
    client.kind = "agent" => ResumeMatches(client.last_resume)

\* the part of C24 that the code keeps: in execute_tool_calls a check that
\* raised leaves the error message of the failed check and no invocation
C24_ExecuteToolCallsDenies ==
    client.kind = "execute" =>
        \A id \in 1..Len(client.tool_calls) :
            "raise" \in VerdictsOf(id) =>
                /\ MessagesOf(id) = {ToolMessage(id, "check_failed")}
                /\ ToolMessage(id, "check_failed").status = "error"
                /\ id \notin Ids(client.invoked)

\* the counts of iterate_with_tools stay within max_rounds
RoundsWithinBound ==
    client.kind = "rounds" =>
        /\ Len(client.bound) <= client.max_rounds
        /\ \A n \in DOMAIN client.bound :
               client.bound[n] => (n < client.max_rounds /\ client.all_tools)
        /\ client.max_rounds >= 1 => Len(client.executed) <= client.max_rounds - 1
        /\ client.max_rounds < 1 => client.executed = <<>>
        /\ \A n \in DOMAIN client.executed :
               client.executed[n] < client.max_rounds
        /\ \A n, m \in DOMAIN client.executed :
               n < m => client.executed[n] < client.executed[m]

\* C27: the LLM is invoked at most max_rounds times; tools are bound only
\* in rounds before the last; execute_tool_calls runs in at most
\* max_rounds - 1 rounds, never in the last one, whatever tool calls that
\* round produced; and the iteration ends.
C27_BoundedRounds ==
    /\ []RoundsWithinBound
    /\ <>(client.kind = "rounds" /\ client.at = "done")

C27_Witness ==
    /\ client.kind = "rounds"
    /\ client.at = "done"
    /\ client.max_rounds >= 2
    /\ Len(client.bound) = client.max_rounds
    /\ client.executed # <<>>
    /\ client.final_tool_chunks > 0

\* the request in evaluation is a call to a tool of the mock server under
\* the default tool-level configuration, described as tools/list does
DefaultOnListedTool ==
    /\ pc # "idle"
    /\ config \in DefaultConfigs
    /\ \E n \in DOMAIN MockTools :
           /\ tool_request.name = StrVal(MockTools[n].name)
           /\ tool_request.description = StrVal(MockTools[n].description)

DemoOnExecuteCommand ==
    /\ pc # "idle"
    /\ config = DemoConfig
    /\ tool_request.name.val = MockTools[6].name

\* the command of the request contains one of the keywords of the rule
CommandMatches ==
    KeywordMatches(config.approval_rules[MockTools[6].name][1].keywords,
                   Lower(tool_request.args["command"].val))

ProtocolPost ==
    /\ server.kind = "server"
    /\ server.request.body = "object"
    /\ server.request.method.val \in {"initialize", "tools/list", "tools/call"}

\* the result the protocol asks of the method
ResultOf(method) ==
    CASE method = "initialize" -> "serverInfo"
      [] method = "tools/list" -> "tools"
      [] OTHER -> "content"

\* the response answers the request: same id (1 when the request has none),
\* the result of its method, and isError false for tools/call
Answered ==
    /\ server.response.status = "sent"
    /\ server.response.id = Get(server.request.id, Json("number", "1"))
    /\ server.response.result = ResultOf(server.request.method.val)
    /\ server.request.method.val = "tools/call"
           => server.response.isError = Json("bool", "false")

\* C26: every POST with method initialize, tools/list or tools/call is
\* answered with a response carrying the request's id and the result of the
\* method; tools/call answers with isError false for any tool name.
C26_EveryPostAnswered == ProtocolPost => Answered

\* the part of C26 that the code keeps: requests whose params and arguments
\* are objects (or absent) are answered, whatever the tool name
C26_WellFormedAnswered ==
    ( /\ ProtocolPost
      /\ server.request.params.type \in {"absent", "object"}
      /\ server.request.params.arguments.type \in {"absent", "object"} )
    => Answered

\* C31 as stated: a call-level evaluation of a request whose name or
\* description contains a dangerous verb goes to the handler and passes no
\* argument value to str().
C31_ShortCircuit ==
    ( /\ config.kind = "call"
      /\ pc # "idle"
      /\ StringFields
      /\ SomeVerbInRequest )
    => ( /\ handler_calls = 1
         /\ Stringified(config, tool_request) = {} )

\* C32 as stated: in every configuration in use the stored dangerous verbs
\* and the stored keywords of the argument rules are lower-case.
C32_StoredLowerCase ==
    /\ \A i \in DOMAIN config.dangerous_verbs :
           config.dangerous_verbs[i] = Lower(config.dangerous_verbs[i])
    /\ \A t \in DOMAIN config.approval_rules :
           \A i \in DOMAIN config.approval_rules[t] :
               \A n \in DOMAIN config.approval_rules[t][i].keywords :
                   config.approval_rules[t][i].keywords[n]
                       = Lower(config.approval_rules[t][i].keywords[n])

\* the requests that differ from the one in evaluation at most in the case
\* of letters of the name
CaseVariants ==
    {[tool_request EXCEPT !.name = n] :
        n \in {m \in Names : /\ m.type = "str"
                              /\ Lower(m.val) = Lower(tool_request.name.val)}}

\* C33 as stated: a call-level evaluation escalates the request exactly when
\* it escalates every request that differs from it only in the case of
\* letters of the name, and auto-permits it exactly when it auto-permits
\* those.
C33_NameCaseIrrelevant ==
    ( /\ config.kind = "call"
      /\ pc # "idle"
      /\ StringFields
      /\ ArgsPrintable )
    => \A variant \in CaseVariants :
           /\ handler_calls = 1
                  <=> CallLevelClassify(config, variant) = "dangerous"
           /\ AutoPermitted <=> CallLevelClassify(config, variant) = "safe"

\* a line is entered while a confirmation waits for its answer and a reader
\* abandoned by an earlier confirmation takes it
StolenLine ==
    /\ pc = "waiting"
    /\ zombie_readers' < zombie_readers

\* C34 as stated: with confirmations made one after the other, a line
\* entered while a confirmation waits is never taken by the reader that a
\* timed-out confirmation left behind.
C34_NoStolenInput == [][~StolenLine]_vars

\* a pass of the for loop over the interrupts ends and the while loop
\* starts the next one
PassRepeats ==
    /\ client.kind = "agent"
    /\ client.at = "for"
    /\ client.k = Len(client.interrupts)
    /\ pc = "idle"
    /\ pc' = "idle"
    /\ client' # client
    /\ client'.at = "for"
    /\ client'.k = 1

\* C35 as stated: the while loop of invoke_with_approval never starts over
\* after a pass in which the agent was not resumed: some interrupt of the
\* pass that ended carried action_requests and the agent was resumed for
\* it.
C35_EveryPassResumes ==
    [][PassRepeats =>
          \E n \in DOMAIN client.interrupts :
              client.interrupts[n].has_requests]_vars

\* execute_tool_calls has returned its list of messages
ExecReturned ==
    /\ client.kind = "execute"
    /\ client.step # "cancelled"
    /\ client.i > Len(client.tool_calls)

MessageContents ==
    {"denied", "check_failed", "not_found", "timed_out", "tool_error",
     "result"}

\* C36: the list execute_tool_calls returns has one message per tool call,
\* the n-th message carrying the id of the n-th call, whichever way each
\* call went (denied, failed check, tool not found, timeout, exception,
\* success).
C36_OneMessagePerCall ==
    ExecReturned =>
        /\ Len(client.tool_messages) = Len(client.tool_calls)
        /\ \A n \in DOMAIN client.tool_calls :
               /\ client.tool_messages[n].tool_call_id = n
               /\ client.tool_messages[n].content \in MessageContents
               /\ Cardinality(MessagesOf(n)) = 1

\* the check of the first call failed, the tool of the second call raised,
\* and both have their message
C36_Witness ==
    /\ ExecReturned
    /\ Len(client.tool_calls) = 2
    /\ client.tool_messages[1].content = "check_failed"
    /\ client.tool_messages[2].content = "tool_error"

\* call_approval_handler_with_timeout took its timeout branch: the result
\* of call_with_timeout was None
TimeoutBranchTaken ==
    /\ pc = "returned"
    /\ handler_calls = 1
    /\ call_with_timeout(approval_ui_handler, handler_result) = "none"

\* C37 as stated: the timeout branch of call_approval_handler_with_timeout
\* is taken only when the deadline elapsed, never because the handler
\* itself ended.
C37_NoneOnlyOnDeadline ==
    TimeoutBranchTaken => (timed_out /\ handler_result = "deadline")

====
